---------------------------- MODULE Spec2Model ----------------------------
(***************************************************************************)
(* Model of the orders service: a Kafka consumer (RunKafkaReader /         *)
(* HandleOrder) that writes orders to PostgreSQL (Database) and to an      *)
(* in-memory TTL cache (Cache) with a background gcLoop, an HTTP lookup    *)
(* handler (orderAPIHandler), the boot sequence (InitializeCache) and the  *)
(* shutdown sequence (SetupGracefulShutdown).                              *)
(*                                                                         *)
(* Time is counted in units of ten minutes: DefaultTTL (10 minutes) is 1.  *)
(* Every section of code that runs under the cache mutex, and every        *)
(* database transaction or query, is one step of Spec.  FairSpec is Spec   *)
(* with the receive loop scheduled fairly.  LockSpec follows the calls on  *)
(* the cache mutex, the database and the snapshot file one by one.         *)
(***************************************************************************)
EXTENDS Integers, Sequences, FiniteSets, TLC

\* ------------------------------------------------------------------ bounds
MaxTime == 2
MaxDeliveries == 2

\* --------------------------------------------------------------- constants
\* cache.DefaultTTL = 10 * time.Minute, the unit of time of this model
DefaultTTL == 1
\* cache.NoExpiration = -1 * time.Second: any duration that is not > 0
NoExpiration == 0 - 1

\* ------------------------------------------------------------------- data
\* model.Item: Name stands for the fields every projection keeps (name,
\* price, size, total_price, brand), Sale for those ItemsInfo keeps and
\* ItemResponse drops (track_number, sale), RID for those only the message
\* and the items table hold (chrt_id, rid, nm_id, status).
FullItem == [Name |-> "shoe", Sale |-> 30, RID |-> "r1"]

\* model.Order: TrackNumber stands for the order header, delivery and payment.
ZeroOrder == [OrderUID |-> "", TrackNumber |-> "", Items |-> << >>]
Order1 == [OrderUID |-> "k1", TrackNumber |-> "T1", Items |-> << >>]
Order2 == [OrderUID |-> "k2", TrackNumber |-> "T2", Items |-> <<FullItem>>]

\* kafka.Message.Value: bytes is len(msg.Value), wellformed says whether the
\* bytes are JSON of the order shape, order is what they then decode to.
EmptyPayload == [bytes |-> 0, wellformed |-> FALSE, order |-> ZeroOrder]
BadPayload == [bytes |-> 7, wellformed |-> FALSE, order |-> ZeroOrder]
NoKeyPayload == [bytes |-> 16, wellformed |-> TRUE, order |-> ZeroOrder]
Payload1 == [bytes |-> 40, wellformed |-> TRUE, order |-> Order1]
Payload2 == [bytes |-> 90, wellformed |-> TRUE, order |-> Order2]
Payloads == {EmptyPayload, BadPayload, NoKeyPayload, Payload1, Payload2}
NoMessage == [bytes |-> 0 - 1, wellformed |-> FALSE, order |-> ZeroOrder]

UIDs == {"k1", "k2"}

\* json.Unmarshal(msg.Value, &order)
Unmarshal(p) ==
    IF p.wellformed THEN [err |-> FALSE, order |-> p.order]
    ELSE [err |-> TRUE, order |-> ZeroOrder]

\* Go map helpers: m[k] = v and delete(m, k)
MapPut(m, k, v) == [x \in DOMAIN m \cup {k} |-> IF x = k THEN v ELSE m[x]]
MapDel(m, k) == [x \in DOMAIN m \ {k} |-> m[x]]
EmptyMap == [x \in {} |-> ZeroOrder]

\* ------------------------------------------------------------ persistence
\* The PostgreSQL tables, as one map order_uid -> the order as inserted.
\* A transaction or query that fails (up = FALSE) changes nothing.

\* MakeOrder without its duplicate check (SELECT EXISTS): it always inserts
MakeOrder_NoDuplicateCheck(db, order, up) ==
    IF ~up THEN [res |-> "Failed", db |-> db]
    ELSE [res |-> "nil", db |-> MapPut(db, order.OrderUID, order)]

\* Database.MakeOrder: SELECT EXISTS, then the inserts, in one transaction
MakeOrder(db, order, up) ==
    IF ~up THEN [res |-> "Failed", db |-> db]
    ELSE IF order.OrderUID \in DOMAIN db
         THEN [res |-> "ErrOrderExists", db |-> db]
         ELSE [res |-> "nil", db |-> MapPut(db, order.OrderUID, order)]

\* model.ItemInfo as scanned by ItemsInfo: the RID-class columns are not selected
ItemInfoOf(it) == [Name |-> it.Name, Sale |-> it.Sale]

\* Database.ItemsInfo: the item rows of one order, ErrOrderNotFound when none
ItemsInfo(db, uid, up) ==
    IF ~up THEN [err |-> "Failed", items |-> << >>]
    ELSE LET rows == IF uid \in DOMAIN db THEN db[uid].Items ELSE << >>
             infos == [i \in 1..Len(rows) |-> ItemInfoOf(rows[i])]
         IN IF Len(infos) = 0
            THEN [err |-> "ErrOrderNotFound", items |-> << >>]
            ELSE [err |-> "nil", items |-> infos]

\* model.Item rebuilt by GetAllOrders from an ItemInfo
ItemOfInfo(info) == [Name |-> info.Name, Sale |-> info.Sale, RID |-> ""]

\* Database.GetAllOrders: every order row, its items loaded through ItemsInfo;
\* an error of ItemsInfo for any order fails the whole call
GetAllOrders(db, up) ==
    IF ~up \/ \E u \in DOMAIN db : ItemsInfo(db, u, up).err # "nil"
    THEN [err |-> TRUE, orders |-> EmptyMap]
    ELSE [err |-> FALSE,
          orders |-> [u \in DOMAIN db |->
              LET infos == ItemsInfo(db, u, up).items
              IN [OrderUID |-> u,
                  TrackNumber |-> db[u].TrackNumber,
                  Items |-> [i \in 1..Len(infos) |-> ItemOfInfo(infos[i])]]]]

\* ------------------------------------------------------------------ cache
\* cache.Item
NewItem(order, e) == [Order |-> order, Expiration |-> e]

\* Item.IsExpired at time t
IsExpired(item, t) ==
    IF item.Expiration = 0 THEN FALSE ELSE t > item.Expiration

\* Cache.Set at time t: the map after c.items[order.OrderUID] = Item{...}
Set(m, order, d, t) ==
    LET e == IF d > 0 THEN t + d ELSE 0
    IN MapPut(m, order.OrderUID, NewItem(order, e))

\* Cache.Get
Get(m, orderUID) ==
    IF orderUID \notin DOMAIN m
    THEN [order |-> ZeroOrder, found |-> FALSE]
    ELSE [order |-> m[orderUID].Order, found |-> TRUE]

\* DeleteExpired without the test of v.Expiration > 0
DeleteExpired_NoPermanentTest(m, t) ==
    LET dead == {k \in DOMAIN m : t > m[k].Expiration}
    IN [k \in DOMAIN m \ dead |-> m[k]]

\* Cache.DeleteExpired with now = t: the map after the sweep
DeleteExpired(m, t) ==
    LET dead == {k \in DOMAIN m : m[k].Expiration > 0 /\ t > m[k].Expiration}
    IN [k \in DOMAIN m \ dead |-> m[k]]

\* encoding/gob: a struct field holding its zero value is not transmitted,
\* and the decoder leaves a field it did not receive at zero.
GobEncodeItem(item) ==
    [sentOrder |-> item.Order # ZeroOrder,
     Order |-> item.Order,
     sentExpiration |-> item.Expiration # 0,
     Expiration |-> item.Expiration]
GobDecodeItem(w) ==
    [Order |-> IF w.sentOrder THEN w.Order ELSE ZeroOrder,
     Expiration |-> IF w.sentExpiration THEN w.Expiration ELSE 0]
GobEncode(m) == [k \in DOMAIN m |-> GobEncodeItem(m[k])]
GobDecode(w) == [k \in DOMAIN w |-> GobDecodeItem(w[k])]

\* The snapshot file order_cache.gob: absent, created but not (fully)
\* written, or holding a complete gob stream.
NoFile == [exists |-> FALSE, complete |-> FALSE, data |-> EmptyMap]
CreatedFile == [exists |-> TRUE, complete |-> FALSE, data |-> EmptyMap]
WrittenFile(m) == [exists |-> TRUE, complete |-> TRUE, data |-> GobEncode(m)]
\* the file when Encode was cut short: entries are on disk, the stream is not
\* complete and does not decode
HalfWrittenFile(m) ==
    [exists |-> TRUE, complete |-> FALSE, data |-> GobEncode(m)]

\* ItemResponse built by orderAPIHandler from an ItemInfo
ItemResponseOf(info) == [Name |-> info.Name]

\* the anonymous response struct of orderAPIHandler
ResponseOf(orderID, infos) ==
    [OrderUID |-> orderID,
     Items |-> [i \in 1..Len(infos) |-> ItemResponseOf(infos[i])]]

\* orderToModel: the response converted back to a model.Order
orderToModel(r) ==
    [OrderUID |-> r.OrderUID,
     TrackNumber |-> "",
     Items |-> [i \in 1..Len(r.Items) |->
                  [Name |-> r.Items[i].Name, Sale |-> 0, RID |-> ""]]]

\* ------------------------------------------------------------------ state
VARIABLES
    now,          \* the wall clock (time.Now), in units of ten minutes
    store,        \* the PostgreSQL tables: order_uid -> order
    file,         \* the snapshot file order_cache.gob
    delivered,    \* how many messages the Message Source has delivered
    creates,      \* per order_uid, how many MakeOrder calls inserted the order
    okDeliveries, \* per order_uid, how many HandleOrder calls returned nil
    mpc,          \* main: "load", "scan", "reconcile", "booted", "serving",
                  \* "dead"
    items,        \* Cache.items
    ordersFromDB, \* InitializeCache: the orders still to be reconciled
    scanErr,      \* InitializeCache: whether GetAllOrders returned an error
    gpc,          \* gcLoop: "select", "sweep", "stopped"
    rpc,          \* RunKafkaReader: "read", "handle", "db", "set", "commit"
    msg,          \* the message of the current (or last) loop iteration
    out,          \* what HandleOrder returned for it: "none", "nil", "errUnmarshal",
                  \* "errEmptyUID", "errDB"
    ack,          \* whether CommitMessages was called for it and succeeded
    dbUp,         \* whether the database answered its MakeOrder call
    lpc,          \* orderAPIHandler: "idle", "db", "set"
    lkey,         \* its orderID
    lerr,         \* the err ItemsInfo returned to it
    linfo,        \* the items ItemsInfo returned to it
    resp,         \* the HTTP response it wrote last
    spc,          \* SetupGracefulShutdown: "wait", "stop", "save", "encode",
                  \* "exit"
    snap,         \* SaveToFile: its local copy of the map
    mu,           \* Cache.mu: per task, "" or how it holds it, "r" or "w"
    at            \* per task, the index in its call sequence of the call
                  \* it makes next (0: the task has returned)

durable == <<now, store, file, delivered, creates, okDeliveries>>
cacheVars == <<items, gpc>>
bootVars == <<mpc, ordersFromDB, scanErr>>
readerVars == <<rpc, msg, out, ack, dbUp>>
lookupVars == <<lpc, lkey, lerr, linfo, resp>>
shutdownVars == <<spc, snap>>
lockVars == <<mu, at>>
programVars == <<now, store, file, delivered, creates, okDeliveries, mpc,
                 items, ordersFromDB, scanErr, gpc, rpc, msg, out, ack, dbUp,
                 lpc, lkey, lerr, linfo, resp, spc, snap>>
vars == <<programVars, lockVars>>

\* The goroutines of the process: main (InitializeCache), gcLoop,
\* RunKafkaReader, an HTTP request in orderAPIHandler, SetupGracefulShutdown.
Tasks == {"main", "gc", "reader", "http", "signal"}

\* A new process: no task holds Cache.mu, every task is at its first call.
FreshMu == [t \in Tasks |-> ""]
FreshAt == [t \in Tasks |-> 1]

NoResponse == [status |-> 0, body |-> ZeroOrder]
NotFound == [status |-> 404, body |-> ZeroOrder]
OK(body) == [status |-> 200, body |-> body]

\* The process's memory right after cache.New returns in InitializeCache:
\* an empty map, gcLoop started, no other goroutine yet.
FreshProcess ==
    /\ mpc' = "load"
    /\ items' = [x \in {} |-> NewItem(ZeroOrder, 0)]
    /\ ordersFromDB' = EmptyMap
    /\ scanErr' = FALSE
    /\ gpc' = "select"
    /\ rpc' = "read"
    /\ msg' = NoMessage
    /\ out' = "none"
    /\ ack' = FALSE
    /\ dbUp' = TRUE
    /\ lpc' = "idle"
    /\ lkey' = ""
    /\ lerr' = "nil"
    /\ linfo' = << >>
    /\ resp' = NoResponse
    /\ spc' = "wait"
    /\ snap' = [x \in {} |-> NewItem(ZeroOrder, 0)]

\* The process is gone: its memory and goroutines with it.
ProcessGone ==
    /\ mpc' = "dead"
    /\ items' = [x \in {} |-> NewItem(ZeroOrder, 0)]
    /\ ordersFromDB' = EmptyMap
    /\ scanErr' = FALSE
    /\ gpc' = "stopped"
    /\ rpc' = "read"
    /\ msg' = NoMessage
    /\ out' = "none"
    /\ ack' = FALSE
    /\ dbUp' = TRUE
    /\ lpc' = "idle"
    /\ lkey' = ""
    /\ lerr' = "nil"
    /\ linfo' = << >>
    /\ resp' = NoResponse
    /\ spc' = "wait"
    /\ snap' = [x \in {} |-> NewItem(ZeroOrder, 0)]

Init ==
    /\ now = 0
    /\ store = EmptyMap
    /\ file = NoFile
    /\ delivered = 0
    /\ creates = [u \in UIDs |-> 0]
    /\ okDeliveries = [u \in UIDs |-> 0]
    /\ mpc = "load"
    /\ items = [x \in {} |-> NewItem(ZeroOrder, 0)]
    /\ ordersFromDB = EmptyMap
    /\ scanErr = FALSE
    /\ gpc = "select"
    /\ rpc = "read"
    /\ msg = NoMessage
    /\ out = "none"
    /\ ack = FALSE
    /\ dbUp = TRUE
    /\ lpc = "idle"
    /\ lkey = ""
    /\ lerr = "nil"
    /\ linfo = << >>
    /\ resp = NoResponse
    /\ spc = "wait"
    /\ snap = [x \in {} |-> NewItem(ZeroOrder, 0)]
    /\ mu = FreshMu
    /\ at = FreshAt

\* ------------------------------------------------------------ environment
\* time passes
Tick ==
    /\ now < MaxTime
    /\ now' = now + 1
    /\ UNCHANGED <<store, file, delivered, creates, okDeliveries>>
    /\ UNCHANGED <<cacheVars, bootVars, readerVars, lookupVars, shutdownVars>>
    /\ UNCHANGED lockVars

\* the process is killed before the shutdown handler has reached os.Exit
Crash ==
    /\ mpc # "dead"
    /\ spc # "exit"
    /\ ProcessGone
    /\ UNCHANGED durable
    /\ UNCHANGED lockVars

\* the process is killed while encoder.Encode(items) is writing the file
Crash_InEncode ==
    /\ spc = "encode"
    /\ file' = HalfWrittenFile(snap)
    /\ ProcessGone
    /\ UNCHANGED <<now, store, delivered, creates, okDeliveries>>
    /\ UNCHANGED lockVars

\* main() is started again: InitializeDatabase, then cache.New
Restart ==
    /\ mpc = "dead"
    /\ FreshProcess
    /\ UNCHANGED <<now, store, file, delivered, creates, okDeliveries>>
    /\ UNCHANGED lockVars

\* ------------------------------------------------------------------- boot
\* LoadFromFile assigning c.items whatever Decode produced before it failed
LoadFromFile_KeepPartial(f, m) ==
    IF ~f.exists THEN [err |-> TRUE, items |-> m]
    ELSE [err |-> ~f.complete, items |-> GobDecode(f.data)]

\* Cache.LoadFromFile: os.Open, gob Decode, then c.items = items under the lock
LoadFromFile(f, m) ==
    IF ~f.exists THEN [err |-> TRUE, items |-> m]
    ELSE IF ~f.complete THEN [err |-> TRUE, items |-> m]
    ELSE [err |-> FALSE, items |-> GobDecode(f.data)]

\* InitializeCache, c.LoadFromFile(): an error is logged and boot goes on
InitializeCache_Load ==
    /\ mpc = "load"
    /\ items' = LoadFromFile(file, items).items
    /\ mpc' = "scan"
    /\ UNCHANGED <<durable, gpc, ordersFromDB, scanErr>>
    /\ UNCHANGED <<readerVars, lookupVars, shutdownVars>>
    /\ UNCHANGED lockVars

\* InitializeCache, db.GetAllOrders(): an error is logged and the loop skipped
InitializeCache_Scan ==
    /\ mpc = "scan"
    /\ \E up \in BOOLEAN :
         LET r == GetAllOrders(store, up)
         IN /\ ordersFromDB' = r.orders
            /\ scanErr' = r.err
            /\ mpc' = IF r.err \/ DOMAIN r.orders = {} THEN "booted"
                      ELSE "reconcile"
    /\ UNCHANGED <<durable, cacheVars, readerVars, lookupVars, shutdownVars>>
    /\ UNCHANGED lockVars

\* the loop body without its c.Get check: every order of the store is Set
Reconcile_Overwrite(m, order, t) == Set(m, order, NoExpiration, t)

\* one iteration of the loop of InitializeCache on order: the map afterwards
Reconcile(m, order, t) ==
    IF ~Get(m, order.OrderUID).found THEN Set(m, order, NoExpiration, t)
    ELSE m

\* InitializeCache, one iteration of `for _, order := range ordersFromDB`
InitializeCache_Reconcile ==
    /\ mpc = "reconcile"
    /\ \E u \in DOMAIN ordersFromDB :
         /\ items' = Reconcile(items, ordersFromDB[u], now)
         /\ ordersFromDB' = MapDel(ordersFromDB, u)
         /\ mpc' = IF DOMAIN ordersFromDB = {u} THEN "booted" ELSE "reconcile"
    /\ UNCHANGED <<durable, gpc, scanErr, readerVars, lookupVars, shutdownVars>>
    /\ UNCHANGED lockVars

\* main after InitializeCache returned: RunHTTPServer, RunKafkaReader and
\* SetupGracefulShutdown start their goroutines
main_Serve ==
    /\ mpc = "booted"
    /\ mpc' = "serving"
    /\ scanErr' = FALSE
    /\ UNCHANGED <<durable, cacheVars, ordersFromDB>>
    /\ UNCHANGED <<readerVars, lookupVars, shutdownVars>>
    /\ UNCHANGED lockVars

\* ----------------------------------------------------------------- reaper
\* gcLoop, case <-ticker.C: DeleteExpired is entered and asks for c.mu.Lock()
gcLoop_Tick ==
    /\ mpc # "dead"
    /\ gpc = "select"
    /\ gpc' = "sweep"
    /\ UNCHANGED <<durable, items, bootVars, readerVars, lookupVars, shutdownVars>>
    /\ UNCHANGED lockVars

\* DeleteExpired under c.mu.Lock(), then back to the select of gcLoop (its
\* time.Now() is read right before the lock: the same instant at this scale)
gcLoop_DeleteExpired ==
    /\ gpc = "sweep"
    /\ items' = DeleteExpired(items, now)
    /\ gpc' = "select"
    /\ UNCHANGED <<durable, bootVars, readerVars, lookupVars, shutdownVars>>
    /\ UNCHANGED lockVars

\* ----------------------------------------------------------------- reader
\* order.OrderUID of the order a payload decodes to
MsgUID(p) == Unmarshal(p).order.OrderUID

\* RunKafkaReader, reader.ReadMessage(ctx): the source delivers any message,
\* redeliveries included
ReadMessage ==
    /\ mpc = "serving"
    /\ rpc = "read"
    /\ delivered < MaxDeliveries
    /\ delivered' = delivered + 1
    /\ \E p \in Payloads : msg' = p
    /\ out' = "none"
    /\ ack' = FALSE
    /\ dbUp' = TRUE
    /\ rpc' = "handle"
    /\ UNCHANGED <<now, store, file, creates, okDeliveries>>
    /\ UNCHANGED <<cacheVars, bootVars, lookupVars, shutdownVars>>
    /\ UNCHANGED lockVars

\* HandleOrder without its test for an empty order_uid
HandleOrder_Check_NoUIDTest(m, value) ==
    IF value.bytes = 0 THEN "nil"
    ELSE IF Unmarshal(value).err THEN "errUnmarshal"
    ELSE IF Get(m, Unmarshal(value).order.OrderUID).found THEN "nil"
    ELSE "db"

\* HandleOrder up to the duplicate check: what it returns, or "db" to go on
HandleOrder_Check(m, value) ==
    IF value.bytes = 0 THEN "nil"
    ELSE IF Unmarshal(value).err THEN "errUnmarshal"
    ELSE IF Unmarshal(value).order.OrderUID = "" THEN "errEmptyUID"
    ELSE IF Get(m, Unmarshal(value).order.OrderUID).found THEN "nil"
    ELSE "db"

\* HandleOrder going on to c.Set whenever MakeOrder did not report a duplicate,
\* a failed insert included
HandleOrder_AfterDB_SetOnError(res) ==
    IF res = "ErrOrderExists" THEN "nil" ELSE "set"

\* HandleOrder after db.MakeOrder returned res: what it returns, or "set"
HandleOrder_AfterDB(res) ==
    IF res = "nil" THEN "set"
    ELSE IF res = "ErrOrderExists" THEN "nil"
    ELSE "errDB"

\* the loop without its `continue` on an error: it always commits
AfterHandle_AlwaysCommit(err) == "commit"

\* the loop with `return` in place of `continue` after a HandleOrder error
AfterHandle_ReturnOnError(err) == IF err # "nil" THEN "returned" ELSE "commit"

\* RunKafkaReader after HandleOrder returned err: commit, or continue
AfterHandle(err) == IF err # "nil" THEN "read" ELSE "commit"

\* okDeliveries after HandleOrder returned r for the current message
Counted(r) ==
    IF r = "nil" /\ MsgUID(msg) \in UIDs
    THEN [okDeliveries EXCEPT ![MsgUID(msg)] = @ + 1]
    ELSE okDeliveries

HandleOrder_Begin ==
    /\ rpc = "handle"
    /\ LET r == HandleOrder_Check(items, msg)
       IN /\ out' = IF r = "db" THEN "none" ELSE r
          /\ rpc' = IF r = "db" THEN "db" ELSE AfterHandle(r)
          /\ okDeliveries' = Counted(r)
    /\ UNCHANGED <<now, store, file, delivered, creates>>
    /\ UNCHANGED <<msg, ack, dbUp>>
    /\ UNCHANGED <<cacheVars, bootVars, lookupVars, shutdownVars>>
    /\ UNCHANGED lockVars

HandleOrder_MakeOrder ==
    /\ rpc = "db"
    /\ \E up \in BOOLEAN :
         LET r == MakeOrder(store, Unmarshal(msg).order, up)
             h == HandleOrder_AfterDB(r.res)
         IN /\ dbUp' = up
            /\ store' = r.db
            /\ creates' = IF r.res = "nil" /\ MsgUID(msg) \in UIDs
                          THEN [creates EXCEPT ![MsgUID(msg)] = @ + 1]
                          ELSE creates
            /\ out' = IF h = "set" THEN "none" ELSE h
            /\ rpc' = IF h = "set" THEN "set" ELSE AfterHandle(h)
            /\ okDeliveries' = Counted(h)
    /\ UNCHANGED <<now, file, delivered, msg, ack>>
    /\ UNCHANGED <<cacheVars, bootVars, lookupVars, shutdownVars>>
    /\ UNCHANGED lockVars

HandleOrder_Set ==
    /\ rpc = "set"
    /\ items' = Set(items, Unmarshal(msg).order, DefaultTTL, now)
    /\ out' = "nil"
    /\ rpc' = AfterHandle("nil")
    /\ okDeliveries' = Counted("nil")
    /\ UNCHANGED <<now, store, file, delivered, creates>>
    /\ UNCHANGED <<msg, ack, dbUp, gpc>>
    /\ UNCHANGED <<bootVars, lookupVars, shutdownVars>>
    /\ UNCHANGED lockVars

\* RunKafkaReader, reader.CommitMessages(ctx, msg): it may fail, which is logged
CommitMessages ==
    /\ rpc = "commit"
    /\ \E ok \in BOOLEAN : ack' = ok
    /\ rpc' = "read"
    /\ UNCHANGED <<durable, msg, out, dbUp>>
    /\ UNCHANGED <<cacheVars, bootVars, lookupVars, shutdownVars>>
    /\ UNCHANGED lockVars

\* ----------------------------------------------------------------- lookup
\* orderAPIHandler, "1. Check cache": GET /order/{orderID}
orderAPIHandler_Get ==
    /\ mpc = "serving"
    /\ lpc = "idle"
    /\ \E orderID \in UIDs :
         LET r == Get(items, orderID)
         IN /\ lkey' = orderID
            /\ resp' = IF r.found THEN OK(r.order) ELSE NoResponse
            /\ lpc' = IF r.found THEN "idle" ELSE "db"
    /\ lerr' = "nil"
    /\ linfo' = << >>
    /\ UNCHANGED <<durable, cacheVars, bootVars, readerVars, shutdownVars>>
    /\ UNCHANGED lockVars

\* orderAPIHandler after ItemsInfo returned r: 404 on an error or on no items
LookupMisses(r) == r.err # "nil" \/ Len(r.items) = 0

\* orderAPIHandler, "2. If not in cache, query database"
orderAPIHandler_ItemsInfo ==
    /\ lpc = "db"
    /\ \E up \in BOOLEAN :
         LET r == ItemsInfo(store, lkey, up)
         IN /\ lerr' = r.err
            /\ linfo' = r.items
            /\ resp' = IF LookupMisses(r) THEN NotFound ELSE NoResponse
            /\ lpc' = IF LookupMisses(r) THEN "idle" ELSE "set"
    /\ UNCHANGED <<durable, lkey, cacheVars, bootVars, readerVars, shutdownVars>>
    /\ UNCHANGED lockVars

\* orderAPIHandler, "Cache the response" and sendJSON
orderAPIHandler_Set ==
    /\ lpc = "set"
    /\ items' = Set(items, orderToModel(ResponseOf(lkey, linfo)), DefaultTTL, now)
    /\ resp' = OK(ResponseOf(lkey, linfo))
    /\ linfo' = << >>
    /\ lpc' = "idle"
    /\ UNCHANGED <<durable, lkey, lerr, gpc>>
    /\ UNCHANGED <<bootVars, readerVars, shutdownVars>>
    /\ UNCHANGED lockVars

\* --------------------------------------------------------------- shutdown
\* SetupGracefulShutdown: SIGTERM or interrupt arrives on ch
Signal ==
    /\ mpc = "serving"
    /\ spc = "wait"
    /\ spc' = "stop"
    /\ UNCHANGED <<durable, snap, cacheVars, bootVars, readerVars, lookupVars>>
    /\ UNCHANGED lockVars

\* Stop on a buffered channel: the send completes without gcLoop receiving
Stop_Buffered ==
    /\ spc = "stop"
    /\ spc' = "save"
    /\ UNCHANGED <<durable, snap, cacheVars, bootVars, readerVars, lookupVars>>
    /\ UNCHANGED lockVars

\* Cache.Stop: c.stopGC <- true on the unbuffered channel completes when
\* gcLoop receives it in its select; gcLoop then stops the ticker and returns
Stop ==
    /\ spc = "stop"
    /\ gpc = "select"
    /\ gpc' = "stopped"
    /\ spc' = "save"
    /\ UNCHANGED <<durable, snap, items, bootVars, readerVars, lookupVars>>
    /\ UNCHANGED lockVars

\* Cache.SaveToFile, the copy of c.items under c.mu.RLock() and
\* os.Create(c.cacheFile), which truncates the file; when os.Create fails the
\* error is returned and logged, and the shutdown goes on
SaveToFile_Create ==
    /\ spc = "save"
    /\ \E ok \in BOOLEAN :
         /\ snap' = IF ok THEN items ELSE snap
         /\ file' = IF ok THEN CreatedFile ELSE file
         /\ spc' = IF ok THEN "encode" ELSE "exit"
    /\ UNCHANGED <<now, store, delivered, creates, okDeliveries>>
    /\ UNCHANGED <<cacheVars, bootVars, readerVars, lookupVars>>
    /\ UNCHANGED lockVars

\* SaveToFile encoding c.items itself, read after the lock was released
SaveToFile_Encode_LiveMap ==
    /\ spc = "encode"
    /\ file' = WrittenFile(items)
    /\ snap' = [x \in {} |-> NewItem(ZeroOrder, 0)]
    /\ spc' = "exit"
    /\ UNCHANGED <<now, store, delivered, creates, okDeliveries>>
    /\ UNCHANGED <<cacheVars, bootVars, readerVars, lookupVars>>
    /\ UNCHANGED lockVars

\* Cache.SaveToFile, encoder.Encode(items) and the deferred file.Close()
SaveToFile_Encode ==
    /\ spc = "encode"
    /\ file' = WrittenFile(snap)
    /\ snap' = [x \in {} |-> NewItem(ZeroOrder, 0)]
    /\ spc' = "exit"
    /\ UNCHANGED <<now, store, delivered, creates, okDeliveries>>
    /\ UNCHANGED <<cacheVars, bootVars, readerVars, lookupVars>>
    /\ UNCHANGED lockVars

\* SetupGracefulShutdown, reader.Close() and os.Exit(0)
Exit ==
    /\ spc = "exit"
    /\ ProcessGone
    /\ UNCHANGED durable
    /\ UNCHANGED lockVars

\* ---------------------------------------------------------- specification
Next ==
    \/ Tick
    \/ Crash
    \/ Crash_InEncode
    \/ Restart
    \/ InitializeCache_Load
    \/ InitializeCache_Scan
    \/ InitializeCache_Reconcile
    \/ main_Serve
    \/ gcLoop_Tick
    \/ gcLoop_DeleteExpired
    \/ ReadMessage
    \/ HandleOrder_Begin
    \/ HandleOrder_MakeOrder
    \/ HandleOrder_Set
    \/ CommitMessages
    \/ orderAPIHandler_Get
    \/ orderAPIHandler_ItemsInfo
    \/ orderAPIHandler_Set
    \/ Signal
    \/ Stop
    \/ SaveToFile_Create
    \/ SaveToFile_Encode
    \/ Exit

Spec == Init /\ [][Next]_vars

\* The goroutine of RunKafkaReader is scheduled whenever it can run, its
\* database and commit calls return, and the Message Source delivers the
\* messages it has.
ReaderFairness ==
    /\ WF_vars(ReadMessage)
    /\ WF_vars(HandleOrder_Begin)
    /\ WF_vars(HandleOrder_MakeOrder)
    /\ WF_vars(HandleOrder_Set)
    /\ WF_vars(CommitMessages)

FairSpec == Spec /\ ReaderFairness

\* ------------------------------------------------------- the cache mutex
\* The calls each cache method makes on c.mu and on files, in program order.
GetOps == <<"RLock", "RUnlock">>
SetOps == <<"Lock", "Unlock">>
DeleteExpiredOps == <<"Lock", "Unlock">>
LoadFromFileOps == <<"os.Open", "Decode", "Lock", "Unlock">>

\* SaveToFile with `defer c.mu.RUnlock()`: the read lock kept to the return
SaveToFileOps_DeferredUnlock == <<"RLock", "os.Create", "Encode", "RUnlock">>

SaveToFileOps == <<"RLock", "RUnlock", "os.Create", "Encode">>

\* The Store calls and the snapshot file I/O
IOOps == {"os.Open", "Decode", "os.Create", "Encode",
          "GetAllOrders", "MakeOrder", "ItemsInfo"}

\* The calls of each task, on its longest path (the others are prefixes):
\* InitializeCache with one order to reconcile, one sweep of gcLoop,
\* HandleOrder for a new order, orderAPIHandler on a cache miss,
\* SetupGracefulShutdown.
Ops(t) ==
    CASE t = "main" -> LoadFromFileOps \o <<"GetAllOrders">> \o GetOps \o SetOps
      [] t = "gc" -> DeleteExpiredOps
      [] t = "reader" -> GetOps \o <<"MakeOrder">> \o SetOps
      [] t = "http" -> GetOps \o <<"ItemsInfo">> \o SetOps
      [] t = "signal" -> <<"Stop">> \o SaveToFileOps \o <<"os.Exit">>

\* the call task t makes next
Op(t) == IF at[t] \in 1..Len(Ops(t)) THEN Ops(t)[at[t]] ELSE "return"

\* main has returned from InitializeCache and started the other goroutines
Serving == at["main"] > Len(Ops("main"))

\* whether task t is running: gcLoop from cache.New until Stop, main from the
\* start, the others once main has started them
Running(t) ==
    CASE t = "main" -> TRUE
      [] t = "gc" -> at[t] > 0
      [] OTHER -> Serving

\* the position of t after its call: gcLoop, the receive loop and the HTTP
\* handler start over
Advance(t) ==
    IF t \in {"gc", "reader", "http"} /\ at[t] = Len(Ops(t)) THEN 1
    ELSE at[t] + 1

\* c.mu.RLock(): granted when no task holds the write lock
mu_RLock ==
    /\ \E t \in Tasks :
         /\ Running(t)
         /\ Op(t) = "RLock"
         /\ \A u \in Tasks : mu[u] # "w"
         /\ mu' = [mu EXCEPT ![t] = "r"]
         /\ at' = [at EXCEPT ![t] = Advance(t)]
    /\ UNCHANGED programVars

\* c.mu.Lock(): granted when no task holds the lock
mu_Lock ==
    /\ \E t \in Tasks :
         /\ Running(t)
         /\ Op(t) = "Lock"
         /\ \A u \in Tasks : mu[u] = ""
         /\ mu' = [mu EXCEPT ![t] = "w"]
         /\ at' = [at EXCEPT ![t] = Advance(t)]
    /\ UNCHANGED programVars

\* c.mu.RUnlock() and c.mu.Unlock()
mu_Unlock ==
    /\ \E t \in Tasks :
         /\ Running(t)
         /\ Op(t) \in {"RUnlock", "Unlock"}
         /\ mu' = [mu EXCEPT ![t] = ""]
         /\ at' = [at EXCEPT ![t] = Advance(t)]
    /\ UNCHANGED programVars

\* a Store call or a call on the snapshot file
mu_IO ==
    /\ \E t \in Tasks :
         /\ Running(t)
         /\ Op(t) \in IOOps
         /\ at' = [at EXCEPT ![t] = Advance(t)]
    /\ UNCHANGED <<programVars, mu>>

\* Cache.Stop: gcLoop takes the value at its select and returns
mu_Stop ==
    /\ Serving
    /\ Op("signal") = "Stop"
    /\ Op("gc") = "Lock"
    /\ at' = [at EXCEPT !["signal"] = @ + 1, !["gc"] = 0]
    /\ UNCHANGED <<programVars, mu>>

\* os.Exit(0), and the process started again
mu_Exit ==
    /\ Serving
    /\ Op("signal") = "os.Exit"
    /\ mu' = FreshMu
    /\ at' = FreshAt
    /\ UNCHANGED programVars

LockNext ==
    \/ mu_RLock
    \/ mu_Lock
    \/ mu_Unlock
    \/ mu_IO
    \/ mu_Stop
    \/ mu_Exit

LockSpec == Init /\ [][LockNext]_vars

\* ----------------------------------------------------------------- claims

\* C1: every entry stored with a ttl > 0 is found by Get exactly while the
\* clock is before its expiration: found at every time in [T, T+ttl), not
\* found at every time >= T+ttl, also while the entry is still in the map
\* because the reaper has not swept it.
C1_GetHonoursTTL ==
    \A k \in DOMAIN items :
        items[k].Expiration > 0 =>
            (Get(items, k).found <=> now < items[k].Expiration)

\* C2: when the same valid message has been handled twice (HandleOrder
\* returned nil both times), its order was inserted into the store exactly
\* once; and HandleOrder returns the database error only when the database
\* did not answer, so with the store available neither delivery fails.
C2_RedeliveryWritesOnce ==
    /\ \A u \in UIDs : okDeliveries[u] >= 2 => creates[u] = 1
    /\ out = "errDB" => ~dbUp

\* C2 witness: a message has been handled for the second time and the cache
\* does not (or no longer) hold its order: it expired and was swept, or the
\* process was restarted, between or after the two deliveries.
C2_Witness ==
    \E u \in UIDs :
        /\ okDeliveries[u] >= 2
        /\ creates[u] = 1
        /\ rpc = "commit"
        /\ MsgUID(msg) = u
        /\ u \notin DOMAIN items

\* the snapshot a boot finds on disk, decoded
SnapshotReadable == file.exists /\ file.complete
Snapshot == GobDecode(file.data)

\* C3 (as claimed): when InitializeCache has loaded the snapshot and
\* reconciled with the store, every key of the snapshot that is also in the
\* store still has a cache entry with the snapshot's expiration E, and Get
\* finds it before E.
C3_BootKeepsExpiration ==
    (mpc = "booted" /\ SnapshotReadable /\ ~scanErr) =>
        \A k \in DOMAIN Snapshot \cap DOMAIN store :
            /\ k \in DOMAIN items
            /\ items[k].Expiration = Snapshot[k].Expiration
            /\ Get(items, k).found

\* C3 (amended): the same for every such key whose expiration has not passed
\* when boot completes (E unset, or now <= E): an entry already expired may
\* be swept by gcLoop, which runs from cache.New on, and is then missing or
\* reloaded from the store as permanent.
C3_BootKeepsLiveExpiration ==
    (mpc = "booted" /\ SnapshotReadable /\ ~scanErr) =>
        \A k \in DOMAIN Snapshot \cap DOMAIN store :
            ~IsExpired(Snapshot[k], now) =>
                /\ k \in DOMAIN items
                /\ items[k].Expiration = Snapshot[k].Expiration
                /\ Get(items, k).found

\* C3 witness: boot has reconciled a store that holds a key the snapshot
\* restored with a TTL still running, and the entry kept that expiration.
C3_Witness ==
    /\ mpc = "booted"
    /\ SnapshotReadable
    /\ ~scanErr
    /\ \E k \in DOMAIN Snapshot \cap DOMAIN store :
         /\ Snapshot[k].Expiration > 0
         /\ now <= Snapshot[k].Expiration
         /\ k \in DOMAIN items
         /\ items[k].Expiration = Snapshot[k].Expiration

\* C4: SaveToFile writes a file that decodes to the map it copied, and
\* LoadFromFile of a readable file makes every entry that is not expired at
\* the reload visible through Get with its record and expiration, and leaves
\* no entry that is expired at the reload visible through Get.
C4_SnapshotRoundTrip ==
    [][ /\ (spc = "encode" /\ spc' = "exit") => GobDecode(file'.data) = snap
        /\ (mpc = "load" /\ mpc' = "scan" /\ SnapshotReadable) =>
              \A k \in DOMAIN Snapshot :
                  IF IsExpired(Snapshot[k], now)
                  THEN ~Get(items', k).found
                  ELSE /\ Get(items', k).found
                       /\ items'[k] = Snapshot[k] ]_vars

\* C5: a lookup that missed the cache and whose key has an order in the
\* store (the database answering) does not answer 404: it goes on to cache
\* the record, answers 200, and the cache then holds the key with
\* expiration now + DefaultTTL.
C5_ReadThrough ==
    [][ /\ (lpc = "db" /\ lpc' # "db" /\ mpc' # "dead"
              /\ lerr' # "Failed" /\ lkey \in DOMAIN store) => lpc' = "set"
        /\ (lpc = "set" /\ lpc' = "idle" /\ mpc' # "dead") =>
              /\ resp'.status = 200
              /\ lkey \in DOMAIN items'
              /\ items'[lkey].Expiration = now + DefaultTTL ]_vars

\* C6: when HandleOrder rejects a message (its payload does not decode, or
\* its order_uid is empty), the loop goes on to CommitMessages for it.
C6_RejectedIsCommitted ==
    [][ (rpc = "handle" /\ out' \in {"errUnmarshal", "errEmptyUID"}) =>
            rpc' = "commit" ]_vars

\* C7: a MakeOrder call the database did not answer makes HandleOrder return
\* the database error; the loop then reads the next message without calling
\* CommitMessages, and the cache holds the order only if the store holds it.
C7_StoreFailureNotCommitted ==
    /\ ~dbUp => out = "errDB"
    /\ out = "errDB" =>
          /\ rpc = "read"
          /\ ~ack
          /\ MsgUID(msg) \in DOMAIN items => MsgUID(msg) \in DOMAIN store

\* C7 witness: HandleOrder has returned the database error for an order that
\* is in neither the store nor the cache.
C7_Witness ==
    /\ out = "errDB"
    /\ ~dbUp
    /\ MsgUID(msg) \notin DOMAIN store
    /\ MsgUID(msg) \notin DOMAIN items

\* C8: when MakeOrder reports that the order already exists, HandleOrder
\* returns nil (the loop commits) and the cache holds the order when it
\* returns.
C8_DuplicateIsCached ==
    [][ (rpc = "db" /\ out' = "nil") =>
            /\ rpc' = "commit"
            /\ MsgUID(msg) \in DOMAIN items' ]_vars

\* a message that carries no valid order
NoValidOrder(p) ==
    p.bytes = 0 \/ Unmarshal(p).err \/ Unmarshal(p).order.OrderUID = ""

\* C9: no step the reader takes for a message without a valid order changes
\* the store or the cache, and for the empty payload HandleOrder returns nil.
C9_InvalidMessageChangesNothing ==
    [][ (NoValidOrder(msg) /\ rpc # "read" /\ rpc' # rpc /\ mpc' # "dead") =>
            /\ store' = store
            /\ items' = items
            /\ msg.bytes = 0 => out' = "nil" ]_vars

\* C9 witness: HandleOrder has returned for a message without a valid order
\* while the store and the cache hold an order.
C9_Witness ==
    /\ msg \in {EmptyPayload, BadPayload, NoKeyPayload}
    /\ out # "none"
    /\ DOMAIN store # {}
    /\ DOMAIN items # {}

\* C10: once Stop has returned (the shutdown is at SaveToFile or beyond),
\* gcLoop has returned: it is neither at its select nor inside DeleteExpired.
C10_ReaperStoppedBeforeSnapshot ==
    spc \in {"save", "encode", "exit"} => gpc = "stopped"

\* C10 witness: the snapshot is being written with the reaper stopped while
\* the cache still holds an expired entry, which a sweep would delete.
C10_Witness ==
    /\ spc = "encode"
    /\ gpc = "stopped"
    /\ \E k \in DOMAIN items : IsExpired(items[k], now)

\* C11: SaveToFile replaces the snapshot atomically: whenever the process is
\* gone, whether it exited or was killed at any point of SaveToFile, the
\* snapshot path holds no file or a complete one (the previous or the new
\* snapshot), never an empty or half-written file.
C11_SnapshotReplacedAtomically ==
    mpc = "dead" => (file.exists => file.complete)

\* C12: when the snapshot file is absent or does not decode, LoadFromFile
\* returns an error, the step leaves Cache.items as it was, with no entry of
\* the file in it, and boot goes on to GetAllOrders.
C12_UnreadableSnapshotIgnored ==
    [][ (mpc = "load" /\ mpc' \notin {"load", "dead"} /\ ~SnapshotReadable) =>
            /\ LoadFromFile(file, items).err
            /\ items' = items
            /\ mpc' = "scan" ]_vars

\* C12 witness: boot has reached the reconciliation loop although the
\* snapshot file is half-written, and the cache holds none of its entries.
C12_Witness ==
    /\ mpc = "reconcile"
    /\ file.exists
    /\ ~file.complete
    /\ DOMAIN file.data # {}
    /\ DOMAIN ordersFromDB = DOMAIN store
    /\ DOMAIN items = {}

\* C13: the process exits through os.Exit only between messages: when
\* SetupGracefulShutdown exits the process, the receive loop is at
\* ReadMessage, not inside HandleOrder (before or after MakeOrder, or before
\* c.Set) and not before CommitMessages.
C13_ExitBetweenMessages ==
    [][ (spc = "exit" /\ mpc' = "dead") => rpc = "read" ]_vars

\* C14: every order id is inserted into the store at most once, the store
\* holds exactly the ids that were inserted, and no step (a re-delivery
\* after an expiration, a sweep, a lookup or a restart included) changes or
\* removes the stored order of an id or inserts it again.
C14_PersistedOnce ==
    /\ [](\A u \in UIDs :
            /\ creates[u] <= 1
            /\ creates[u] = 1 <=> u \in DOMAIN store)
    /\ [][ \A u \in DOMAIN store :
              /\ u \in DOMAIN store'
              /\ store'[u] = store[u]
              /\ creates'[u] = creates[u] ]_vars

\* C14 witness: HandleOrder calls MakeOrder for an order id the store already
\* holds (the cache lost it to a sweep or a restart).
C14_Witness ==
    /\ rpc = "db"
    /\ MsgUID(msg) \in DOMAIN store
    /\ creates[MsgUID(msg)] = 1
    /\ okDeliveries[MsgUID(msg)] >= 1

\* C15: a lookup that missed the cache answers 404 when ItemsInfo reported
\* that the store has no such order, and answers 500, never 404, when
\* ItemsInfo failed with any other error.
C15_LookupFailureKinds ==
    lpc = "idle" =>
        /\ lerr = "ErrOrderNotFound" => resp.status = 404
        /\ lerr = "Failed" => resp.status = 500

\* C16: the map SaveToFile serializes is c.items as it was at the instant of
\* the copy under the read lock: no step of another task changes the copy
\* while the file is being written, and the file Encode leaves holds exactly
\* the entries of the copy, whatever was inserted into the cache meanwhile.
C16_SnapshotIsPointInTime ==
    [][ /\ (spc = "save" /\ spc' = "encode") => snap' = items
        /\ (spc = "encode" /\ spc' = "encode") => snap' = snap
        /\ (spc = "encode" /\ spc' = "exit") => file' = WrittenFile(snap) ]_vars

\* C16 witness: the copy has been taken and, before Encode has run, the
\* receive loop or a lookup has inserted an entry the copy does not hold.
C16_Witness ==
    /\ spc = "encode"
    /\ DOMAIN items # DOMAIN snap
    /\ DOMAIN snap # {}

\* C17: in every reachable state, a task that is about to make or is making
\* a Store call (MakeOrder, ItemsInfo, GetAllOrders) or a call on the
\* snapshot file (os.Create, Encode, os.Open, Decode) holds neither the
\* read nor the write lock of the cache.
C17_NoLockAcrossIO ==
    \A t \in Tasks : Op(t) \in IOOps => mu[t] = ""

\* C17 witness: SaveToFile is writing the file while another task holds the
\* write lock of the cache.
C17_Witness ==
    /\ Op("signal") = "Encode"
    /\ \E u \in Tasks \ {"signal"} : mu[u] = "w"

C19_BootLoadsMissing ==
    (mpc = "booted" /\ (scanErr => GetAllOrders(store, TRUE).err)) =>
        \A k \in DOMAIN store :
            /\ Get(items, k).found
            /\ (~SnapshotReadable \/ k \notin DOMAIN Snapshot) =>
                  items[k].Expiration = 0

\* the receive loop is done with a message that failed: HandleOrder returned
\* an error for it, or CommitMessages failed for it
FailedMessage ==
    /\ mpc = "serving"
    /\ rpc \notin {"handle", "db", "set", "commit"}
    /\ \/ out \in {"errUnmarshal", "errEmptyUID", "errDB"}
       \/ out = "nil" /\ ~ack

\* C20: under FairSpec, whenever a message has failed and the Message Source
\* has another message, the loop goes on to handle that message (unless the
\* process ends first), and whenever the loop is inside a message it comes
\* back to ReadMessage.
C20_FailuresDoNotStopTheLoop ==
    /\ (FailedMessage /\ delivered < MaxDeliveries) ~>
           (rpc = "handle" \/ mpc = "dead")
    /\ (rpc # "read") ~> (rpc = "read")

\* C20 witness: HandleOrder has returned the database error for a message,
\* the loop is back at ReadMessage and the source has a message to deliver.
C20_Witness ==
    /\ mpc = "serving"
    /\ rpc = "read"
    /\ out = "errDB"
    /\ delivered < MaxDeliveries
    /\ spc = "wait"

\* C21: in every reachable state every key of the cache, and every key of a
\* readable snapshot file, has an order in the store; and when the loop is
\* at CommitMessages for a message with a well-formed order and a non-empty
\* order_uid, the store holds an order for that id.
C21_CachedOrdersAreStored ==
    /\ DOMAIN items \subseteq DOMAIN store
    /\ SnapshotReadable => DOMAIN Snapshot \subseteq DOMAIN store
    /\ (rpc = "commit" /\ MsgUID(msg) \in UIDs) =>
          MsgUID(msg) \in DOMAIN store

\* C21 witness: after a restart that loaded the snapshot, a re-delivered
\* order was found in the cache and the loop is at CommitMessages for it.
C21_Witness ==
    /\ rpc = "commit"
    /\ MsgUID(msg) \in UIDs
    /\ okDeliveries[MsgUID(msg)] >= 2
    /\ SnapshotReadable
    /\ MsgUID(msg) \in DOMAIN Snapshot
    /\ MsgUID(msg) \in DOMAIN items
    /\ items[MsgUID(msg)] = Snapshot[MsgUID(msg)]
    /\ spc = "wait"

\* C22: in every reachable state the order the cache holds for a key is the
\* full order the store holds for that key.
C22_CacheEqualsStore ==
    \A k \in DOMAIN items \cap DOMAIN store : items[k].Order = store[k]

=============================================================================
